---- MODULE Spec2Model ----
(***************************************************************************)
(* Model of qutebrowser/utils/keyparser.py: the vim-like key sequence      *)
(* parser KeyParser.  A KeyParser accumulates the text of key presses in   *)
(* _keystring, classifies it against the binding table with _match_key,    *)
(* and either executes a command, waits for more keys, gives up, or (on    *)
(* an ambiguous match) schedules the command on a single-shot QTimer.      *)
(*                                                                         *)
(* Python strings are modelled as sequences of one-character strings, so   *)
(* that indexing, len() and concatenation are the ones of the code.        *)
(* Every method of the class is an operator from the object ("self", a     *)
(* record of its fields) to the object after the call; execute() and the   *)
(* keystring_updated signal append to self.out, the trace of what one      *)
(* handler made visible to the outside, in order.                          *)
(***************************************************************************)
EXTENDS Integers, Sequences, FiniteSets, TLC

VARIABLES
    keystring,          \* self._keystring
    timer,              \* self._timer: None, or Some(id of the QTimer object)
    timers,             \* the QTimers running in the event loop
    bindings,           \* self.bindings
    modifier_bindings,  \* self.modifier_bindings
    supports_count,     \* the class attribute supports_count
    cmd_timeout,        \* config.get('general', 'cmd_timeout')
    nevents,            \* number of key events delivered to handle()
    last,               \* what the last handler (key event or timer) did
    stopped,            \* history: ids of the timers stopped by _stop_delayed_exec
    fired,              \* history: ids of the timers that called delayed_exec
    typing              \* history: the uninterrupted typing since __init__

vars == <<keystring, timer, timers, bindings, modifier_bindings, supports_count,
          cmd_timeout, nevents, last, stopped, fired, typing>>

----------------------------------------------------------------------------
(* Bounds of the model. *)

\* Key events delivered to handle() in one behaviour.
MaxEvents == 3
\* Longest bound key sequence.
MaxBindLen == 2
\* Most entries of a binding table.
MaxBindings == 2

----------------------------------------------------------------------------
(* Values. *)

MATCH_PARTIAL == 0
MATCH_DEFINITIVE == 1
MATCH_AMBIGUOUS == 2
MATCH_NONE == 3

\* Python's None and a value that is not None.
None == <<>>
Some(x) == <<x>>

\* The characters \d of the regular expression matches.
Digits == {"0", "1", "2", "3", "4", "5", "6", "7", "8", "9"}
\* The characters str.strip() removes.
Whitespace == {" "}
\* The characters the modelled keyboard types.
TextChars == {"a", "1"}
\* The keys of Qt.Key_Control, Qt.Key_Alt, Qt.Key_Shift, Qt.Key_Meta.
ModifierKeys == {"Control", "Alt", "Shift", "Meta"}
\* The values of the cmd_timeout setting: 0 and a positive interval.
Timeouts == {0, 500}

\* The key events: a printable key (its text is the character), Ctrl held
\* with a key (bound or not), a bare modifier key, and the space bar, whose
\* text is only whitespace.
KeyEvents ==
    { [key |-> c, mods |-> {}, text |-> <<c>>] : c \in TextChars }
    \cup { [key |-> c, mods |-> {"Ctrl"}, text |-> <<>>] : c \in {"a", "b"} }
    \cup { [key |-> "Control", mods |-> {"Ctrl"}, text |-> <<>>] }
    \cup { [key |-> "Space", mods |-> {}, text |-> <<" ">>] }

\* The key sequences a table can bind.
RECURSIVE SeqsOfLen(_)
SeqsOfLen(n) ==
    IF n = 0 THEN {<<>>}
    ELSE {Append(s, c) : s \in SeqsOfLen(n - 1), c \in TextChars}

BindingKeys == UNION {SeqsOfLen(n) : n \in 1..MaxBindLen}

RECURSIVE KeySets(_)
KeySets(n) ==
    IF n = 0 THEN {{}}
    ELSE LET P == KeySets(n - 1)
         IN P \cup {K \cup {k} : K \in P, k \in BindingKeys}

\* The command string bound to a key sequence: every binding of a table has
\* its own command.
RECURSIVE Join(_)
Join(k) == IF k = <<>> THEN "" ELSE Head(k) \o Join(Tail(k))

CommandFor(k) == "run-" \o Join(k)

\* Every binding table with at most MaxBindings entries (the empty one too).
SmallTables == {[k \in K |-> CommandFor(k)] : K \in KeySets(MaxBindings)}

\* A table in which a bound sequence is followed by another ambiguous one:
\* "a" is bound and starts "a1"; "a1" is bound and _match_key takes "11" for
\* another candidate.
ChainTable ==
    [k \in {<<"a">>, <<"a", "1">>, <<"1", "1">>} |-> CommandFor(k)]

BindingTables == SmallTables \cup {ChainTable}

\* The modifier binding tables: Ctrl+A is bound, Ctrl+B is not.
ModifierTables == {[k \in {"Ctrl+A"} |-> "modcmd"]}

----------------------------------------------------------------------------
(* Library functions the code calls. *)

\* str.strip()
RECURSIVE lstrip(_)
lstrip(s) == IF s # <<>> /\ Head(s) \in Whitespace THEN lstrip(Tail(s)) ELSE s

RECURSIVE rstrip(_)
rstrip(s) ==
    IF s # <<>> /\ s[Len(s)] \in Whitespace
    THEN rstrip(SubSeq(s, 1, Len(s) - 1))
    ELSE s

strip(s) == rstrip(lstrip(s))

\* re.match(r'^(\d*)(.*)', s).groups(): the greedy leading run of digits,
\* and the rest.
RECURSIVE DigitRun(_)
DigitRun(s) ==
    IF s # <<>> /\ Head(s) \in Digits THEN 1 + DigitRun(Tail(s)) ELSE 0

re_match_groups(s) ==
    <<SubSeq(s, 1, DigitRun(s)), SubSeq(s, DigitRun(s) + 1, Len(s))>>

\* int() of a string of decimal digits.
DigitValue(c) ==
    CASE c = "0" -> 0 [] c = "1" -> 1 [] c = "2" -> 2 [] c = "3" -> 3
      [] c = "4" -> 4 [] c = "5" -> 5 [] c = "6" -> 6 [] c = "7" -> 7
      [] c = "8" -> 8 [] c = "9" -> 9

RECURSIVE int(_)
int(s) ==
    IF s = <<>> THEN 0
    ELSE 10 * int(SubSeq(s, 1, Len(s) - 1)) + DigitValue(s[Len(s)])

\* QKeySequence(e.key()).toString(): the name of the key.
KeyToString(key) ==
    CASE key = "a" -> "A" [] key = "b" -> "B" [] OTHER -> key

\* The loop over modmask2str: the names of the held modifiers, each with '+'.
modstr(mod) ==
    (IF "Ctrl" \in mod THEN "Ctrl+" ELSE "")
    \o (IF "Alt" \in mod THEN "Alt+" ELSE "")
    \o (IF "Meta" \in mod THEN "Meta+" ELSE "")
    \o (IF "Shift" \in mod THEN "Shift+" ELSE "")

----------------------------------------------------------------------------
(* The methods of KeyParser. *)

\* execute(cmdstr, count): the subclass's action, seen as an output.
execute(self, cmdstr, count) ==
    [self EXCEPT !.out = Append(@, [op |-> "execute", cmdstr |-> cmdstr,
                                    count |-> count])]

\* self.keystring_updated.emit(self._keystring)
emit_keystring_updated(self) ==
    [self EXCEPT !.out = Append(@, [op |-> "keystring_updated",
                                    arg |-> self.keystring])]

\* Mutant: an unbound combination is reported as not handled.
_handle_modifier_key_miss_unhandled(self, e) ==
    IF e.key \in ModifierKeys
    THEN [self EXCEPT !.handled = FALSE]
    ELSE IF e.mods \cap {"Ctrl", "Alt", "Meta"} = {}
    THEN [self EXCEPT !.handled = FALSE]
    ELSE LET name == modstr(e.mods) \o KeyToString(e.key)
         IN IF name \notin DOMAIN modifier_bindings
            THEN [self EXCEPT !.handled = FALSE]
            ELSE [execute(self, modifier_bindings[name], None)
                      EXCEPT !.handled = TRUE]

_handle_modifier_key(self, e) ==
    IF e.key \in ModifierKeys
    THEN [self EXCEPT !.handled = FALSE]
    ELSE IF e.mods \cap {"Ctrl", "Alt", "Meta"} = {}
    THEN [self EXCEPT !.handled = FALSE]
    ELSE LET name == modstr(e.mods) \o KeyToString(e.key)
         IN IF name \notin DOMAIN modifier_bindings
            THEN [self EXCEPT !.handled = TRUE]
            ELSE [execute(self, modifier_bindings[name], None)
                      EXCEPT !.handled = TRUE]

\* Mutant: the scan does not skip the binding that matched exactly.
partial_match_with_self(cmd_input, definitive) ==
    \E binding \in DOMAIN bindings :
        /\ ~(Len(binding) < Len(cmd_input))
        /\ cmd_input[Len(cmd_input)] = binding[Len(cmd_input)]

\* Mutant: a candidate must be strictly longer than cmd_input.
partial_match_longer(cmd_input, definitive) ==
    \E binding \in DOMAIN bindings :
        /\ ~(definitive /\ binding = cmd_input)
        /\ ~(Len(binding) <= Len(cmd_input))
        /\ cmd_input[Len(cmd_input)] = binding[Len(cmd_input)]

\* The scan "for binding in self.bindings": some other binding is at least
\* as long as cmd_input and has cmd_input's last character at that place.
partial_match(cmd_input, definitive) ==
    \E binding \in DOMAIN bindings :
        /\ ~(definitive /\ binding = cmd_input)
        /\ ~(Len(binding) < Len(cmd_input))
        /\ cmd_input[Len(cmd_input)] = binding[Len(cmd_input)]

\* (matchtype, binding)
_match_key(cmd_input) ==
    LET definitive == cmd_input \in DOMAIN bindings
        partial == partial_match(cmd_input, definitive)
    IN IF definitive /\ partial THEN <<MATCH_AMBIGUOUS, bindings[cmd_input]>>
       ELSE IF definitive THEN <<MATCH_DEFINITIVE, bindings[cmd_input]>>
       ELSE IF partial THEN <<MATCH_PARTIAL, None>>
       ELSE <<MATCH_NONE, None>>

\* Mutant: the call does nothing, as if line 126 were missing.
_stop_delayed_exec_noop(self) == self

\* Mutant: stopping the timer also throws the pending keys away.
_stop_delayed_exec_reset(self) ==
    IF self.timer # None
    THEN [self EXCEPT !.timers = {},
                      !.stopped = @ \cup {self.timer[1]},
                      !.timer = None,
                      !.keystring = <<>>]
    ELSE self

\* Mutant: the handle is dropped but the QTimer is not stopped.
_stop_delayed_exec_no_stop(self) ==
    IF self.timer # None
    THEN [self EXCEPT !.stopped = @ \cup {self.timer[1]}, !.timer = None]
    ELSE self

_stop_delayed_exec(self) ==
    IF self.timer # None
    THEN [self EXCEPT !.timers = {t \in @ : t.id # self.timer[1]},
                      !.stopped = @ \cup {self.timer[1]},
                      !.timer = None]
    ELSE self

\* Mutant: the QTimer is created and connected but never started.
_handle_ambiguous_match_no_start(self, binding, count) ==
    LET time == cmd_timeout
        s1 == [self EXCEPT !.time = Some(time)]
    IN IF time = 0
       THEN execute([s1 EXCEPT !.keystring = <<>>], binding, count)
       ELSE [s1 EXCEPT !.timer = Some(self.newid)]

\* Mutant: a timer is started whatever the timeout is.
_handle_ambiguous_match_always_timer(self, binding, count) ==
    LET time == cmd_timeout
        s1 == [self EXCEPT !.time = Some(time)]
    IN [s1 EXCEPT
           !.timer = Some(self.newid),
           !.timers = @ \cup {[id |-> self.newid, command |-> binding,
                               count |-> count]}]

\* Mutant: with a timeout of 0 the command runs but the keystring is kept.
_handle_ambiguous_match_keep_keystring(self, binding, count) ==
    LET time == cmd_timeout
        s1 == [self EXCEPT !.time = Some(time)]
    IN IF time = 0
       THEN execute(s1, binding, count)
       ELSE [s1 EXCEPT
                !.timer = Some(self.newid),
                !.timers = @ \cup {[id |-> self.newid, command |-> binding,
                                    count |-> count]}]

\* Mutant: starting the timer clears the keystring.
_handle_ambiguous_match_clear(self, binding, count) ==
    LET time == cmd_timeout
        s1 == [self EXCEPT !.time = Some(time)]
    IN IF time = 0
       THEN execute([s1 EXCEPT !.keystring = <<>>], binding, count)
       ELSE [s1 EXCEPT
                !.keystring = <<>>,
                !.timer = Some(self.newid),
                !.timers = @ \cup {[id |-> self.newid, command |-> binding,
                                    count |-> count]}]

\* time is the setting as config.get() returns it in this call.
_handle_ambiguous_match(self, binding, count) ==
    LET time == cmd_timeout
        s1 == [self EXCEPT !.time = Some(time)]
    IN IF time = 0
       THEN execute([s1 EXCEPT !.keystring = <<>>], binding, count)
       ELSE [s1 EXCEPT
                !.timer = Some(self.newid),
                !.timers = @ \cup {[id |-> self.newid, command |-> binding,
                                    count |-> count]}]

\* Mutant: a missing digit prefix gives the count 0, not None.
split_keystring_zero(ks) ==
    IF supports_count
    THEN LET groups == re_match_groups(ks)
         IN [count |-> Some(int(groups[1])), cmd_input |-> groups[2]]
    ELSE [count |-> None, cmd_input |-> ks]

\* Mutant: the keystring is split whether or not counts are supported.
split_keystring_always(ks) ==
    LET groups == re_match_groups(ks)
    IN [count |-> IF groups[1] # <<>> THEN Some(int(groups[1])) ELSE None,
        cmd_input |-> groups[2]]

\* Mutant: no digits are taken as a count although counts are supported.
split_keystring_never(ks) == [count |-> None, cmd_input |-> ks]

\* The count and the command input of the keystring.
split_keystring(ks) ==
    IF supports_count
    THEN LET groups == re_match_groups(ks)
         IN [count |-> IF groups[1] # <<>> THEN Some(int(groups[1])) ELSE None,
             cmd_input |-> groups[2]]
    ELSE [count |-> None, cmd_input |-> ks]

\* Mutant: after no match the key just typed starts the next keystring.
_handle_single_key_retry(self, e) ==
    LET txt == strip(e.text)
    IN IF txt = <<>> THEN self
       ELSE
       LET s1 == _stop_delayed_exec(self)
           s2 == [s1 EXCEPT !.keystring = @ \o txt]
           sp == split_keystring(s2.keystring)
       IN IF sp.cmd_input = <<>> THEN s2
          ELSE
          LET m == _match_key(sp.cmd_input)
              s3 == [s2 EXCEPT !.match = Some(m[1]),
                               !.cmd_input = sp.cmd_input]
          IN CASE m[1] = MATCH_DEFINITIVE ->
                    execute([s3 EXCEPT !.keystring = <<>>], m[2], sp.count)
               [] m[1] = MATCH_AMBIGUOUS ->
                    _handle_ambiguous_match(s3, m[2], sp.count)
               [] m[1] = MATCH_PARTIAL -> s3
               [] m[1] = MATCH_NONE -> [s3 EXCEPT !.keystring = txt]

_handle_single_key(self, e) ==
    LET txt == strip(e.text)
    IN IF txt = <<>> THEN self
       ELSE
       LET s1 == _stop_delayed_exec(self)
           s2 == [s1 EXCEPT !.keystring = @ \o txt]
           sp == split_keystring(s2.keystring)
       IN IF sp.cmd_input = <<>> THEN s2
          ELSE
          LET m == _match_key(sp.cmd_input)
              s3 == [s2 EXCEPT !.match = Some(m[1]),
                               !.cmd_input = sp.cmd_input]
          IN CASE m[1] = MATCH_DEFINITIVE ->
                    execute([s3 EXCEPT !.keystring = <<>>], m[2], sp.count)
               [] m[1] = MATCH_AMBIGUOUS ->
                    _handle_ambiguous_match(s3, m[2], sp.count)
               [] m[1] = MATCH_PARTIAL -> s3
               [] m[1] = MATCH_NONE -> [s3 EXCEPT !.keystring = <<>>]

\* Mutant: the command runs before the keystring is reset and announced.
delayed_exec_execute_first(self, command, count) ==
    emit_keystring_updated(
        [execute(self, command, count)
             EXCEPT !.timer = None, !.keystring = <<>>])

delayed_exec(self, command, count) ==
    execute(emit_keystring_updated(
                [self EXCEPT !.timer = None, !.keystring = <<>>]),
            command, count)

\* Mutant: every key event stops a pending timer first.
handle_stop_first(self, e) ==
    LET s1 == _handle_modifier_key(_stop_delayed_exec(self), e)
    IN IF s1.handled THEN s1
       ELSE emit_keystring_updated(_handle_single_key(s1, e))

\* Mutant: the signal is emitted before the key is processed.
handle_emit_first(self, e) ==
    LET s1 == _handle_modifier_key(self, e)
    IN IF s1.handled THEN s1
       ELSE _handle_single_key(emit_keystring_updated(s1), e)

handle(self, e) ==
    LET s1 == _handle_modifier_key(self, e)
    IN IF s1.handled THEN s1
       ELSE emit_keystring_updated(_handle_single_key(s1, e))

----------------------------------------------------------------------------
(* The state machine. *)

\* The object at the start of a handler.
Self ==
    [keystring |-> keystring, timer |-> timer, timers |-> timers,
     stopped |-> stopped, newid |-> nevents + 1, handled |-> FALSE,
     match |-> None, cmd_input |-> <<>>, time |-> None, out |-> <<>>]

\* The execute() calls of an output trace.
ExecCalls(out) == SelectSeq(out, LAMBDA o : o.op = "execute")

\* __init__
Init ==
    /\ keystring = <<>>
    /\ timer = None
    /\ timers = {}
    /\ bindings \in BindingTables
    /\ modifier_bindings \in ModifierTables
    /\ supports_count \in BOOLEAN
    /\ cmd_timeout \in Timeouts
    /\ nevents = 0
    /\ last = [kind |-> "init"]
    /\ stopped = {}
    /\ fired = {}
    /\ typing = Some([keys |-> <<>>, calls |-> <<>>])

\* A key press event is delivered to handle().
Handle ==
    \E e \in KeyEvents :
        /\ nevents < MaxEvents
        /\ LET s == handle(Self, e)
               text == ~s.handled /\ strip(e.text) # <<>>
           IN /\ keystring' = s.keystring
              /\ timer' = s.timer
              /\ timers' = s.timers
              /\ stopped' = s.stopped
              /\ last' = [kind |-> "key", e |-> e, handled |-> s.handled,
                          match |-> s.match, cmd_input |-> s.cmd_input,
                          out |-> s.out, ks_before |-> keystring,
                          timer_before |-> timer, time |-> s.time]
              /\ typing' =
                     IF typing # None /\ text
                     THEN Some([keys |-> typing[1].keys \o strip(e.text),
                                calls |-> typing[1].calls \o ExecCalls(s.out)])
                     ELSE None
        /\ nevents' = nevents + 1
        /\ UNCHANGED <<bindings, modifier_bindings, supports_count, cmd_timeout,
                       fired>>

\* A running single-shot timer times out and calls its delayed_exec.
TimerFire ==
    \E t \in timers :
        /\ LET s == delayed_exec([Self EXCEPT !.timers = @ \ {t}],
                                 t.command, t.count)
           IN /\ keystring' = s.keystring
              /\ timer' = s.timer
              /\ timers' = s.timers
              /\ stopped' = s.stopped
              /\ last' = [kind |-> "timer", id |-> t.id, out |-> s.out,
                          command |-> t.command, count |-> t.count,
                          ks_before |-> keystring, timer_before |-> timer]
        /\ fired' = fired \cup {t.id}
        /\ typing' = None
        /\ UNCHANGED <<bindings, modifier_bindings, supports_count, cmd_timeout,
                       nevents>>

\* The user changes the cmd_timeout setting.
ConfigSet ==
    /\ cmd_timeout' \in Timeouts \ {cmd_timeout}
    /\ UNCHANGED <<keystring, timer, timers, bindings, modifier_bindings,
                   supports_count, nevents, last, stopped, fired, typing>>

Next == Handle \/ TimerFire \/ ConfigSet

Spec == Init /\ [][Next]_vars

\* cmd_timeout is 0 and the setting is never changed, so that no timer is
\* ever created.
ZeroInit == Init /\ cmd_timeout = 0

ZeroSpec == ZeroInit /\ [][Handle]_vars

\* The event loop runs a timer that has timed out.
FairSpec == Spec /\ WF_vars(TimerFire)

\* The command inputs _match_key is applied to on its own.
MatchInputs == UNION {SeqsOfLen(n) : n \in 1..(MaxBindLen + 1)}

\* _match_key is called on a command input, for any binding table.
Classify ==
    \E cmd_input \in MatchInputs :
        /\ last' = [kind |-> "match", cmd_input |-> cmd_input,
                    result |-> _match_key(cmd_input),
                    bindings_before |-> bindings]
        /\ UNCHANGED <<keystring, timer, timers, bindings, modifier_bindings,
                       supports_count, cmd_timeout, nevents, stopped, fired,
                       typing>>

MatchSpec == Init /\ [][Classify]_vars

----------------------------------------------------------------------------
(* Vocabulary of the properties. *)

\* The last step was a key event whose text reached the keystring.
TextKeyStep ==
    /\ last.kind = "key"
    /\ ~last.handled
    /\ strip(last.e.text) # <<>>

\* The last step was a key event that did not reach the keystring: a
\* modifier combination, or a key without text.
OtherKeyStep == last.kind = "key" /\ ~TextKeyStep

\* The execute() calls of the last step.
LastExecs == ExecCalls(last.out)

\* The timer with this id has called delayed_exec.
Fired(id) == id \in fired

\* The timer with this id is running in the event loop.
Running(id) == \E t \in timers : t.id = id

TimerIds == 1..MaxEvents

----------------------------------------------------------------------------
(* C1 *)

\* C1: supersession.  A text key press handled while a timer is pending
\* stops that timer; a stopped timer is not running any more and has made
\* no execute() call, so of the deferred command and the command of the new
\* input at most one is executed: the superseded timer makes no call, and
\* the key press makes at most one, for the binding of the new, longer
\* command input, as its classification says.
C1_Supersession ==
    /\ \A id \in stopped : ~Running(id) /\ ~Fired(id)
    /\ (TextKeyStep /\ last.timer_before # None) =>
           /\ last.timer_before[1] \in stopped
           /\ timer # last.timer_before
           /\ ~Fired(last.timer_before[1])
           /\ Len(LastExecs) <= 1
           /\ LastExecs # <<>> =>
                  /\ last.match \in {Some(MATCH_DEFINITIVE),
                                     Some(MATCH_AMBIGUOUS)}
                  /\ Len(last.cmd_input) > 1
                  /\ LastExecs[1].cmdstr = bindings[last.cmd_input]

\* "a" and "ab" are bound: "a" started a timer, "b" stopped it and "ab"
\* was executed at once.
C1_Witness ==
    /\ TextKeyStep
    /\ last.timer_before # None
    /\ last.timer_before[1] \in stopped
    /\ Len(LastExecs) = 1
    /\ timer = None

----------------------------------------------------------------------------
(* C2 *)

\* C2 as stated: every key event delivered to handle() while a timer is
\* pending stops that timer.
C2_AnyKeyEventCancels ==
    (last.kind = "key" /\ last.timer_before # None) =>
        /\ last.timer_before[1] \in stopped
        /\ ~Running(last.timer_before[1])

\* C2, amended: a key event delivered while a timer is pending stops the
\* timer exactly when it is a key press without Ctrl, Alt or Meta whose
\* stripped text is not empty; a modifier combination (bound or not) and a
\* key press without text leave the timer pending and running.
C2_OnlyTextKeyCancels ==
    (last.kind = "key" /\ last.timer_before # None) =>
        /\ TextKeyStep =>
               /\ last.timer_before[1] \in stopped
               /\ ~Running(last.timer_before[1])
        /\ OtherKeyStep =>
               /\ timer = last.timer_before
               /\ Running(last.timer_before[1])
               /\ last.timer_before[1] \notin stopped

\* A bound modifier combination was executed while a timer was pending, and
\* the timer is still running.
C2_Witness ==
    /\ OtherKeyStep
    /\ last.handled
    /\ Len(LastExecs) = 1
    /\ last.timer_before # None
    /\ timer = last.timer_before
    /\ Running(timer[1])

----------------------------------------------------------------------------
(* C3 *)

\* C3: at most one timer is running at any time, and it is the one
\* self._timer refers to; when a key press starts a timer, a timer that was
\* pending before that key press is no longer running.
C3_AtMostOneTimer ==
    /\ Cardinality(timers) <= 1
    /\ \A t \in timers : timer = Some(t.id)
    /\ timer # None => Running(timer[1])

\* A key press found a timer pending and started a new one.
C3_Witness ==
    /\ TextKeyStep
    /\ last.timer_before # None
    /\ timer # None
    /\ timer # last.timer_before
    /\ Cardinality(timers) = 1

----------------------------------------------------------------------------
(* C4 *)

\* C4: under fairness of the timer, a pending timer is eventually resolved:
\* it is stopped by a key press, or it fires and delayed_exec clears
\* self._timer and the keystring and calls execute().
C4_TimerResolved ==
    \A id \in TimerIds :
        (timer = Some(id)) ~> (id \in stopped \/ (Fired(id) /\ timer # Some(id)))

\* A timer has fired: self._timer and the keystring are cleared and the
\* command has been executed.
C4_Witness ==
    /\ last.kind = "timer"
    /\ Fired(last.id)
    /\ last.timer_before = Some(last.id)
    /\ timer = None
    /\ keystring = <<>>

----------------------------------------------------------------------------
(* C5 *)

\* p is a prefix of b.
IsPrefix(p, b) == Len(p) <= Len(b) /\ SubSeq(b, 1, Len(p)) = p

\* A longer binding has S's last character where S ends.
LongerSharesLast(S) ==
    \E b \in DOMAIN bindings : Len(b) > Len(S) /\ b[Len(S)] = S[Len(S)]

\* Another binding, longer or as long, has S's last character where S ends.
OtherSharesLast(S) ==
    \E b \in DOMAIN bindings :
        b # S /\ Len(b) >= Len(S) /\ b[Len(S)] = S[Len(S)]

\* A proper prefix of S is bound too.
ProperPrefixBound(S) ==
    \E n \in 1..(Len(S) - 1) : SubSeq(S, 1, n) \in DOMAIN bindings

\* Since __init__ exactly the characters of S were typed, one key press each.
TypedExactly(S) ==
    typing # None /\ typing[1].keys = S /\ nevents = Len(S)

\* The execute() calls of the typing.
TypingCalls == typing[1].calls

\* The last key press was definitive, S's command is the one execute() call
\* and the keystring is empty.
DispatchedOnce(S) ==
    /\ last.match = Some(MATCH_DEFINITIVE)
    /\ Len(TypingCalls) = 1
    /\ TypingCalls[1].cmdstr = bindings[S]
    /\ keystring = <<>>

----------------------------------------------------------------------------
(* C6 *)

\* C6 as stated: a command input that is neither bound nor a prefix of a
\* binding is MATCH_NONE and the keystring is reset; a MATCH_PARTIAL command
\* input is a prefix of a binding.
C6_NoMatchUnlessPrefix ==
    (TextKeyStep /\ last.match # None) =>
        /\ ( /\ last.cmd_input \notin DOMAIN bindings
             /\ ~\E b \in DOMAIN bindings : IsPrefix(last.cmd_input, b) )
           => (last.match = Some(MATCH_NONE) /\ keystring = <<>>)
        /\ last.match = Some(MATCH_PARTIAL)
           => \E b \in DOMAIN bindings :
                  b # last.cmd_input /\ IsPrefix(last.cmd_input, b)

----------------------------------------------------------------------------
(* C7 *)

\* C7 as stated: a command input is MATCH_AMBIGUOUS exactly when it is bound
\* and is a proper prefix of another binding.
C7_AmbiguousIffBoundAndPrefix ==
    (TextKeyStep /\ last.match # None) =>
        ( last.match = Some(MATCH_AMBIGUOUS)
          <=> ( /\ last.cmd_input \in DOMAIN bindings
                /\ \E b \in DOMAIN bindings :
                       b # last.cmd_input /\ IsPrefix(last.cmd_input, b) ) )

----------------------------------------------------------------------------
(* C8 *)

----------------------------------------------------------------------------
(* C9 *)

\* The number of digits the keystring starts with.
LeadingDigits(ks) ==
    CHOOSE n \in 0..Len(ks) :
        /\ \A i \in 1..n : ks[i] \in Digits
        /\ n = Len(ks) \/ ks[n + 1] \notin Digits

RECURSIVE Pow10(_)
Pow10(n) == IF n = 0 THEN 1 ELSE 10 * Pow10(n - 1)

RECURSIVE DecimalFrom(_, _)
DecimalFrom(ds, i) ==
    IF i > Len(ds) THEN 0
    ELSE DigitValue(ds[i]) * Pow10(Len(ds) - i) + DecimalFrom(ds, i + 1)

\* The count a keystring stands for: None without leading digits.
CountOf(ks) ==
    IF LeadingDigits(ks) = 0 THEN None
    ELSE Some(DecimalFrom(SubSeq(ks, 1, LeadingDigits(ks)), 1))

\* The keystring after its leading digits.
CommandOf(ks) == SubSeq(ks, LeadingDigits(ks) + 1, Len(ks))

\* C9: with counts supported, a key press classifies the keystring without
\* its leading digits (nothing, if only digits were typed), every execute()
\* it makes and every timer it starts carries the value of the digits as
\* count, or None if there are none; keys 1, 1, a with "a" definitive call
\* execute(a's command, 11).
C9_CountSplit ==
    supports_count =>
        /\ TextKeyStep =>
               LET ks == last.ks_before \o strip(last.e.text)
               IN /\ CommandOf(ks) = <<>> =>
                         /\ last.match = None
                         /\ LastExecs = <<>>
                         /\ keystring = ks
                  /\ CommandOf(ks) # <<>> =>
                         /\ last.match # None
                         /\ last.cmd_input = CommandOf(ks)
                  /\ \A i \in 1..Len(LastExecs) :
                         LastExecs[i].count = CountOf(ks)
                  /\ \A t \in timers : t.count = CountOf(ks)
        /\ \A t \in timers : t.count = CountOf(keystring)
        /\ last.kind = "timer" =>
               \A i \in 1..Len(LastExecs) :
                   LastExecs[i].count = CountOf(last.ks_before)
        /\ ( /\ TypedExactly(<<"1", "1", "a">>)
             /\ <<"a">> \in DOMAIN bindings
             /\ ~OtherSharesLast(<<"a">>) )
           => TypingCalls = <<[op |-> "execute",
                               cmdstr |-> bindings[<<"a">>],
                               count |-> Some(11)]>>

\* Keys 1, 1, a were typed and a's command was executed with count 11.
C9_Witness ==
    /\ supports_count
    /\ TypedExactly(<<"1", "1", "a">>)
    /\ Len(TypingCalls) = 1
    /\ TypingCalls[1].count = Some(11)
    /\ TypingCalls[1].cmdstr = bindings[<<"a">>]

----------------------------------------------------------------------------
(* C10 *)

\* C10: with counts not supported, a key press classifies the whole
\* keystring, leading digits included, and every execute() call and every
\* timer carries no count.
C10_NoCountSupport ==
    ~supports_count =>
        /\ TextKeyStep =>
               /\ last.match # None
               /\ last.cmd_input = last.ks_before \o strip(last.e.text)
        /\ last.kind \in {"key", "timer"} =>
               \A i \in 1..Len(LastExecs) : LastExecs[i].count = None
        /\ \A t \in timers : t.count = None

\* A binding that starts with a digit was typed and executed without count.
C10_Witness ==
    /\ ~supports_count
    /\ TextKeyStep
    /\ Len(last.cmd_input) = 2
    /\ last.cmd_input[1] \in Digits
    /\ LastExecs = <<[op |-> "execute", cmdstr |-> bindings[last.cmd_input],
                      count |-> None]>>

----------------------------------------------------------------------------
(* C11 *)

\* The last step was a key event with Ctrl, Alt or Meta held and a key that
\* is not a modifier key.
ModifierComboStep ==
    /\ last.kind = "key"
    /\ last.e.key \notin ModifierKeys
    /\ last.e.mods \cap {"Ctrl", "Alt", "Meta"} # {}

\* The keystring_updated signals of the last step.
LastEmits == SelectSeq(last.out, LAMBDA o : o.op = "keystring_updated")

\* C11: a modifier combination is reported handled, leaves the keystring
\* as it was and emits no keystring_updated; the keystring is not
\* classified; if the combination is bound, execute() is called once with
\* its command and no count, and if it is not, nothing is called.
C11_ModifierCombo ==
    ModifierComboStep =>
        LET name == modstr(last.e.mods) \o KeyToString(last.e.key)
        IN /\ last.handled
           /\ keystring = last.ks_before
           /\ LastEmits = <<>>
           /\ last.match = None
           /\ name \in DOMAIN modifier_bindings =>
                  last.out = <<[op |-> "execute",
                                cmdstr |-> modifier_bindings[name],
                                count |-> None]>>
           /\ name \notin DOMAIN modifier_bindings => last.out = <<>>

\* Ctrl+B, which is not bound, was pressed while keys were pending.
C11_Witness ==
    /\ ModifierComboStep
    /\ last.e.key = "b"
    /\ last.out = <<>>
    /\ keystring # <<>>
    /\ keystring = last.ks_before

----------------------------------------------------------------------------
(* C12 *)

\* The last step was a key event that is no modifier combination and whose
\* text is empty once stripped.
EmptyTextStep ==
    /\ last.kind = "key"
    /\ ~ModifierComboStep
    /\ strip(last.e.text) = <<>>

\* C12 as stated: a key press without text is ignored entirely by handle():
\* the keystring and a pending timer are left as they were, and neither
\* execute() nor keystring_updated is called.
C12_EmptyTextIgnored ==
    EmptyTextStep =>
        /\ keystring = last.ks_before
        /\ timer = last.timer_before
        /\ LastExecs = <<>>
        /\ LastEmits = <<>>

----------------------------------------------------------------------------
(* C13 *)

\* The steps after which the keystring is empty: a definitive match, an
\* ambiguous match with a timeout of 0, and no match.
LastResets ==
    \/ last.match = Some(MATCH_DEFINITIVE)
    \/ last.match = Some(MATCH_NONE)
    \/ last.match = Some(MATCH_AMBIGUOUS) /\ last.time = Some(0)

\* C13: a key press with text and without Ctrl, Alt or Meta makes handle()
\* emit keystring_updated exactly once, as the last thing it does (after an
\* execute() call of the same event), with the keystring as it then is:
\* empty after a definitive match, an ambiguous match with timeout 0 or no
\* match, and the old keystring plus the typed text after a partial match,
\* digits only, or an ambiguous match with a timer.
C13_OneUpdatePerTextKey ==
    TextKeyStep =>
        /\ Len(LastEmits) = 1
        /\ last.out[Len(last.out)] =
               [op |-> "keystring_updated", arg |-> keystring]
        /\ keystring = IF LastResets THEN <<>>
                       ELSE last.ks_before \o strip(last.e.text)

\* A key press ran a command at once and then announced the empty
\* keystring.
C13_Witness ==
    /\ TextKeyStep
    /\ Len(last.out) = 2
    /\ last.out[1].op = "execute"
    /\ last.out[2] = [op |-> "keystring_updated", arg |-> <<>>]
    /\ last.ks_before # <<>>

----------------------------------------------------------------------------
(* C14 *)

\* The count and the command that _handle_single_key takes from a keystring.
CountIn(ks) == IF supports_count THEN CountOf(ks) ELSE None
CommandIn(ks) == IF supports_count THEN CommandOf(ks) ELSE ks

\* C14: a timer that fires clears the timer handle and the keystring, emits
\* keystring_updated(""), and only then calls execute() with the command
\* and the count of the ambiguous match that started it; nothing follows
\* the execute() call, so the keystring is empty and no timer is pending
\* when it is made.
C14_DelayedExec ==
    last.kind = "timer" =>
        /\ timer = None
        /\ keystring = <<>>
        /\ last.timer_before = Some(last.id)
        /\ last.command = bindings[CommandIn(last.ks_before)]
        /\ last.count = CountIn(last.ks_before)
        /\ last.out = <<[op |-> "keystring_updated", arg |-> <<>>],
                        [op |-> "execute", cmdstr |-> last.command,
                         count |-> last.count]>>

\* A timer started for a keystring with a count has fired.
C14_Witness ==
    /\ last.kind = "timer"
    /\ last.count # None
    /\ Len(last.out) = 2
    /\ keystring = <<>>

----------------------------------------------------------------------------
(* C15 *)

\* The output of a key event that runs the binding of cmd_input at once:
\* execute() with the count of the keystring, then keystring_updated("").
ImmediateOut(ks, cmd_input) ==
    <<[op |-> "execute", cmdstr |-> bindings[cmd_input],
       count |-> CountIn(ks)],
      [op |-> "keystring_updated", arg |-> <<>>]>>

\* C15: a key press classified as ambiguous while cmd_timeout is 0 does
\* what a definitive match does: within that event the keystring becomes
\* empty, execute() is called once with the command and the count, and no
\* timer exists afterwards.  The timeout that counts is the setting at the
\* time of that key press: with a positive setting the same match starts a
\* timer and executes nothing, whatever the setting was before.
C15_ZeroTimeoutAmbiguous ==
    [][(nevents' = nevents + 1 /\ last'.match = Some(MATCH_AMBIGUOUS)) =>
          LET ks == keystring \o strip(last'.e.text)
          IN /\ last'.time = Some(cmd_timeout)
             /\ cmd_timeout = 0 =>
                    /\ keystring' = <<>>
                    /\ timer' = None
                    /\ timers' = {}
                    /\ last'.out = ImmediateOut(ks, last'.cmd_input)
             /\ cmd_timeout # 0 =>
                    /\ keystring' = ks
                    /\ timer' = Some(nevents')
                    /\ ExecCalls(last'.out) = <<>>]_vars

\* An ambiguous match was executed at once although an earlier ambiguous
\* match, made under a positive timeout, had started a timer.
C15_Witness ==
    /\ TextKeyStep
    /\ last.match = Some(MATCH_AMBIGUOUS)
    /\ last.time = Some(0)
    /\ last.timer_before # None
    /\ Len(LastExecs) = 1
    /\ keystring = <<>>
    /\ timer = None

----------------------------------------------------------------------------
(* C16 *)

\* C16: the keystring becomes empty only in a key press with a definitive
\* match, an ambiguous match with timeout 0 or no match, and when the timer
\* fires.  A text key press of any other kind (partial match, digits only,
\* ambiguous match with a timer), also one that stops a timer, appends its
\* text; a modifier combination and a key without text leave the keystring
\* as it is.
C16_KeystringResets ==
    /\ last.kind = "timer" => keystring = <<>>
    /\ OtherKeyStep => keystring = last.ks_before
    /\ TextKeyStep =>
           keystring = IF LastResets THEN <<>>
                       ELSE last.ks_before \o strip(last.e.text)
    /\ TextKeyStep /\ LastResets =>
           \/ last.match # Some(MATCH_AMBIGUOUS)
           \/ timer = None /\ Len(LastExecs) = 1

\* A key press stopped a pending timer and kept the pending keys, with its
\* own text appended.
C16_Witness ==
    /\ TextKeyStep
    /\ last.timer_before # None
    /\ last.timer_before[1] \in stopped
    /\ ~LastResets
    /\ Len(keystring) = Len(last.ks_before) + 1
    /\ Len(last.ks_before) > 0

----------------------------------------------------------------------------
(* C17 *)

\* C17: while a timer is pending it is the one running timer, the keystring
\* is not empty, the command part of the keystring (what follows the
\* leading digits with count support, the whole keystring without) is
\* bound, the timer's command is the binding of that part and the timer's
\* count is the count of the keystring.
C17_PendingTimerMatchesKeystring ==
    /\ timer # None => \E t \in timers : t.id = timer[1]
    /\ \A t \in timers :
           /\ timer = Some(t.id)
           /\ keystring # <<>>
           /\ CommandIn(keystring) \in DOMAIN bindings
           /\ t.command = bindings[CommandIn(keystring)]
           /\ t.count = CountIn(keystring)

\* A timer started for a keystring with a count is still pending after a
\* modifier combination was handled.
C17_Witness ==
    /\ timer # None
    /\ ModifierComboStep
    /\ CountIn(keystring) # None
    /\ Len(CommandIn(keystring)) > 0

----------------------------------------------------------------------------
(* C18 *)

\* C18: with cmd_timeout always 0, a binding that has another binding as a
\* proper prefix is never executed: no key press classifies it and runs a
\* command, and its command is never passed to execute().
C18_ShadowedNeverExecuted ==
    last.kind = "key" =>
        /\ LastExecs # <<>> /\ ~last.handled =>
               ~ProperPrefixBound(last.cmd_input)
        /\ \A S \in DOMAIN bindings :
               ProperPrefixBound(S) =>
                   \A i \in 1..Len(LastExecs) :
                       LastExecs[i].cmdstr # bindings[S]

\* A binding with a bound proper prefix was typed key by key from the start;
\* the only command that ran is the one of the prefix.
C18_Witness ==
    /\ typing # None
    /\ typing[1].keys \in DOMAIN bindings
    /\ ProperPrefixBound(typing[1].keys)
    /\ nevents = Len(typing[1].keys)
    /\ Len(TypingCalls) = 1
    /\ TypingCalls[1].cmdstr = bindings[SubSeq(typing[1].keys, 1, 1)]

----------------------------------------------------------------------------
(* C19 *)

\* Every character of ks is a decimal digit.
AllDigits(ks) == \A i \in 1..Len(ks) : ks[i] \in Digits

\* C19: with count support the command of a binding that starts with a
\* digit is never passed to execute(), neither by a key press nor by a
\* timer; and a keystring that consists of digits only after a key press
\* was not classified, is kept with the typed digit appended, runs nothing
\* and starts no timer.
C19_DigitsAreCounts ==
    supports_count =>
        /\ last.kind \in {"key", "timer"} =>
               \A S \in DOMAIN bindings :
                   S[1] \in Digits =>
                       \A i \in 1..Len(LastExecs) :
                           LastExecs[i].cmdstr # bindings[S]
        /\ TextKeyStep /\ AllDigits(last.ks_before \o strip(last.e.text)) =>
               /\ last.match = None
               /\ keystring = last.ks_before \o strip(last.e.text)
               /\ LastExecs = <<>>
               /\ timer = None

\* Two digits were typed while a binding made of those two digits exists;
\* both are pending as a count.
C19_Witness ==
    /\ supports_count
    /\ TextKeyStep
    /\ last.ks_before # <<>>
    /\ AllDigits(keystring)
    /\ Len(keystring) = 2
    /\ keystring \in DOMAIN bindings

----------------------------------------------------------------------------
(* C20 *)

\* C20: a key press classified as no match empties the keystring, the key
\* just typed included, and is over: it calls no execute(), starts no timer
\* and only emits keystring_updated(""), also when the typed key alone is
\* bound; the next key press starts from the empty keystring.
C20_NoMatchDiscards ==
    (TextKeyStep /\ last.match = Some(MATCH_NONE)) =>
        /\ keystring = <<>>
        /\ timer = None
        /\ timers = {}
        /\ last.out = <<[op |-> "keystring_updated", arg |-> <<>>]>>

\* No match although keys were pending and the typed key alone is bound.
C20_Witness ==
    /\ TextKeyStep
    /\ last.match = Some(MATCH_NONE)
    /\ last.ks_before # <<>>
    /\ strip(last.e.text) \in DOMAIN bindings
    /\ keystring = <<>>

====
